---- MODULE Spec2Model ----
(***************************************************************************)
(* Intersection polygons of a road network                                 *)
(* (map_model/src/make/intersections.rs).                                  *)
(*                                                                         *)
(* One action, initial_intersection_polygon, is one call of the function   *)
(* of that name on one intersection of the network: it reads the incident  *)
(* roads, returns the intersection's polygon and trims the roads'          *)
(* centerlines in place.                                                   *)
(*                                                                         *)
(* Geometry.  The geom crate (Pt2D, Line, PolyLine, Angle) is not part of  *)
(* the sources at hand; its operations are modelled here over integer      *)
(* points and axis-aligned polylines, in metres.  Lengths are then         *)
(* integers, angles are multiples of 90 degrees, and every operation is    *)
(* computed (shift moves points, slice and trim_to_pt cut, intersection    *)
(* solves for the crossing point).  A value of type Option<T> is a         *)
(* sequence: <<>> is None and <<x>> is Some(x).                            *)
(***************************************************************************)
EXTENDS Integers, Sequences, FiniteSets

\* ------------------------------------------------------------------------
\* Constants of the program

\* const DEGENERATE_INTERSECTION_HALF_LENGTH: si::Meter<f64> = 5.0
DEGENERATE_INTERSECTION_HALF_LENGTH == 5

\* crate::LANE_THICKNESS, the width of one lane, in metres (rounded to a
\* whole number of metres; the code only ever multiplies it by lane counts)
LANE_THICKNESS == 2

\* ------------------------------------------------------------------------
\* Bounds of the model

\* the longest road, in metres
MaxLen == 13

\* a behaviour makes at most MaxCalls calls
MaxCalls == 2

\* ------------------------------------------------------------------------
\* Option<T>

None == <<>>

Some(x) == <<x>>

is_some(o) == o # <<>>

unwrap(o) == o[1]

\* ------------------------------------------------------------------------
\* Pt2D, Angle, Line

Abs(n) == IF n < 0 THEN -n ELSE n

Sgn(n) == IF n > 0 THEN 1 ELSE IF n < 0 THEN -1 ELSE 0

Min(a, b) == IF a <= b THEN a ELSE b

Max(a, b) == IF a >= b THEN a ELSE b

\* Angle::normalized_degrees: the angle in [0, 360)
normalized_degrees(a) == ((a % 360) + 360) % 360

\* Angle::opposite
opposite(a) == a + 180

\* Angle::rotate_degs
rotate_degs(a, d) == a + d

\* the unit vector of an axis angle (cos, sin)
unit(a) ==
    CASE normalized_degrees(a) = 0 -> <<1, 0>>
      [] normalized_degrees(a) = 90 -> <<0, 1>>
      [] normalized_degrees(a) = 180 -> <<-1, 0>>
      [] normalized_degrees(a) = 270 -> <<0, -1>>

\* Pt2D::project_away(dist, angle)
project_away(p, dist, a) == <<p[1] + dist * unit(a)[1], p[2] + dist * unit(a)[2]>>

\* Line::new
Line(p, q) == <<p, q>>

\* Line::angle: atan2(dy, dx), in degrees, of a line along an axis
line_angle(l) ==
    LET dx == Sgn(l[2][1] - l[1][1])
        dy == Sgn(l[2][2] - l[1][2])
    IN  CASE dx = 1 -> 0
          [] dx = -1 -> 180
          [] dy = 1 -> 90
          [] dy = -1 -> 270
          [] OTHER -> 0

\* Line::length, of a line along an axis
line_length(l) == Abs(l[2][1] - l[1][1]) + Abs(l[2][2] - l[1][2])

\* whether a line runs along the x axis
Horizontal(l) == l[1][2] = l[2][2]

\* whether point p lies on the (closed) segment l
OnSegment(p, l) ==
    /\ Min(l[1][1], l[2][1]) <= p[1] /\ p[1] <= Max(l[1][1], l[2][1])
    /\ Min(l[1][2], l[2][2]) <= p[2] /\ p[2] <= Max(l[1][2], l[2][2])

\* where the infinite lines through l1 and l2 cross; None when parallel
line_crossing(l1, l2) ==
    IF Horizontal(l1) = Horizontal(l2) THEN None
    ELSE IF Horizontal(l1) THEN Some(<<l2[1][1], l1[1][2]>>)
    ELSE Some(<<l1[1][1], l2[1][2]>>)

\* Line::intersection: where two segments cross; None when they do not
segment_intersection(l1, l2) ==
    LET c == line_crossing(l1, l2)
    IN  IF is_some(c) /\ OnSegment(unwrap(c), l1) /\ OnSegment(unwrap(c), l2)
        THEN c ELSE None

\* where segment l1 crosses the infinite line through l2
segment_infinite_intersection(l1, l2) ==
    LET c == line_crossing(l1, l2)
    IN  IF is_some(c) /\ OnSegment(unwrap(c), l1) THEN c ELSE None

\* ------------------------------------------------------------------------
\* PolyLine: a sequence of at least two points

\* PolyLine::reversed
reversed(pl) == [k \in 1..Len(pl) |-> pl[Len(pl) + 1 - k]]

\* PolyLine::last_pt
last_pt(pl) == pl[Len(pl)]

\* PolyLine::last_line
last_line(pl) == Line(pl[Len(pl) - 1], pl[Len(pl)])

\* the k-th segment of a polyline
segment(pl, k) == Line(pl[k], pl[k + 1])

\* the length of the first k segments
RECURSIVE length_upto(_, _)
length_upto(pl, k) ==
    IF k = 0 THEN 0 ELSE length_upto(pl, k - 1) + line_length(segment(pl, k))

\* PolyLine::length
length(pl) == length_upto(pl, Len(pl) - 1)

\* the point at distance d from the start, 0 <= d <= length
point_at(pl, d) ==
    LET k == CHOOSE j \in 1..(Len(pl) - 1) :
                 /\ length_upto(pl, j - 1) <= d
                 /\ (d <= length_upto(pl, j))
                 /\ \A h \in 1..(j - 1) : length_upto(pl, h) < d
        a == line_angle(segment(pl, k))
    IN  project_away(pl[k], d - length_upto(pl, k - 1), a)

\* PolyLine::safe_dist_along: Some((point, angle)), None past the end
safe_dist_along(pl, d) ==
    IF d < 0 \/ d > length(pl) THEN None ELSE Some(point_at(pl, d))

\* PolyLine::dist_along is safe_dist_along(..).unwrap()
dist_along(pl, d) == unwrap(safe_dist_along(pl, d))

\* whether PolyLine::slice(start, end) accepts its arguments
slice_ok(pl, start, end) == 0 <= start /\ start < end /\ end <= length(pl)

\* PolyLine::slice(start, end).0: the part between the two distances
slice(pl, start, end) ==
    LET inner == { k \in 1..Len(pl) :
                     start < length_upto(pl, k - 1) /\ length_upto(pl, k - 1) < end }
        lo == CHOOSE k \in inner : \A h \in inner : k <= h
        hi == CHOOSE k \in inner : \A h \in inner : h <= k
        mid == IF inner = {} THEN <<>> ELSE SubSeq(pl, lo, hi)
    IN  <<point_at(pl, start)>> \o mid \o <<point_at(pl, end)>>

\* PolyLine::shift(width): the polyline moved sideways by width, to the side
\* at +90 degrees of its direction; Some(polyline)
shift(pl, width) ==
    LET a == line_angle(last_line(pl))
    IN  Some([k \in 1..Len(pl) |-> project_away(pl[k], width, rotate_degs(a, 90))])

\* the segments of pl1 and pl2 that cross, as pairs of indices
crossing_segments(pl1, pl2) ==
    { jk \in (1..(Len(pl1) - 1)) \X (1..(Len(pl2) - 1)) :
        is_some(segment_intersection(segment(pl1, jk[1]), segment(pl2, jk[2]))) }

\* PolyLine::intersection: the first crossing of pl1 with pl2 and the angle
\* of pl1 there, Some(<<hit, angle>>); None when they do not cross
intersection(pl1, pl2) ==
    LET hits == crossing_segments(pl1, pl2)
        jk == CHOOSE x \in hits :
                 \A y \in hits : x[1] < y[1] \/ (x[1] = y[1] /\ x[2] <= y[2])
    IN  IF hits = {} THEN None
        ELSE Some(<<unwrap(segment_intersection(segment(pl1, jk[1]), segment(pl2, jk[2]))),
                    line_angle(segment(pl1, jk[1]))>>)

\* PolyLine::intersection_infinite_line: the first point of pl on the
\* infinite line through l; None when there is none
intersection_infinite_line(pl, l) ==
    LET hits == { k \in 1..(Len(pl) - 1) :
                    is_some(segment_infinite_intersection(segment(pl, k), l)) }
        k == CHOOSE x \in hits : \A y \in hits : x <= y
    IN  IF hits = {} THEN None
        ELSE segment_infinite_intersection(segment(pl, k), l)

\* PolyLine::trim_to_pt: the polyline cut to end at pt, a point on it
trim_to_pt(pl, pt) ==
    LET on == { k \in 1..(Len(pl) - 1) : OnSegment(pt, segment(pl, k)) }
        k == CHOOSE x \in on : \A y \in on : x <= y
    IN  SubSeq(pl, 1, k) \o <<pt>>

\* Vec::dedup: consecutive equal elements collapsed to one
RECURSIVE dedup(_)
dedup(s) ==
    IF Len(s) <= 1 THEN s
    ELSE LET d == dedup(SubSeq(s, 1, Len(s) - 1))
         IN  IF s[Len(s)] = d[Len(d)] THEN d ELSE Append(d, s[Len(s)])

\* abstutil::wraparound_get, for a 0-based signed index
wraparound_get(vec, idx) == vec[(((idx % Len(vec)) + Len(vec)) % Len(vec)) + 1]

\* ------------------------------------------------------------------------
\* The road network

VARIABLES
    roads,          \* RoadID -> Road: src_i, dst_i, center_pts and lane counts
    intersections,  \* IntersectionID -> Intersection: its id and incident roads
    done,           \* the intersections whose polygon has been made
    last            \* the latest call: its intersection, the roads at entry,
                    \* how it ended, and the polygon and diagnostics it produced

vars == <<roads, intersections, done, last>>

\* how the geometry library answers the queries whose answer the caller
\* unwraps: as computed, PolyLine::shift with None, or the corner
\* perpendicular's PolyLine::intersection_infinite_line with None
LibAnswers == {"computed", "shift_none", "perp_none"}

\* ------------------------------------------------------------------------
\* initial_intersection_polygon: the border builder

\* the incident road oriented to end at intersection i, with the widths of
\* its two sides; None when the road has no endpoint at i
oriented(r, i) ==
    LET fwd_width == LANE_THICKNESS * r.children_forwards
        back_width == LANE_THICKNESS * r.children_backwards
    IN  IF r.src_i = i
        THEN Some([line |-> reversed(r.center_pts),
                   width_normal |-> back_width, width_reverse |-> fwd_width])
        ELSE IF r.dst_i = i
        THEN Some([line |-> r.center_pts,
                   width_normal |-> fwd_width, width_reverse |-> back_width])
        ELSE None

\* the two borders of a line ending at the intersection
pl_normal_of(line, width_normal) == unwrap(shift(line, width_normal))

pl_reverse_of(line, width_reverse) ==
    reversed(unwrap(shift(reversed(line), width_reverse)))

\* one element of lines: (RoadID, Angle, PolyLine, PolyLine)
border_entry(id, rds, i) ==
    LET o == unwrap(oriented(rds[id], i))
    IN  [id |-> id,
         angle |-> line_angle(last_line(o.line)),
         pl_normal |-> pl_normal_of(o.line, o.width_normal),
         pl_reverse |-> pl_reverse_of(o.line, o.width_reverse)]

\* the key lines are sorted by
sort_key(entry) == normalized_degrees(entry.angle)

\* x inserted into a sorted sequence after every element whose key is not larger
RECURSIVE insert_by_key(_, _)
insert_by_key(sorted, x) ==
    IF sorted = <<>> THEN <<x>>
    ELSE IF sort_key(sorted[Len(sorted)]) <= sort_key(x) THEN Append(sorted, x)
    ELSE Append(insert_by_key(SubSeq(sorted, 1, Len(sorted) - 1), x), sorted[Len(sorted)])

\* Vec::sort_by_key, a stable sort
RECURSIVE sort_by_key(_)
sort_by_key(s) ==
    IF s = <<>> THEN <<>>
    ELSE insert_by_key(sort_by_key(SubSeq(s, 1, Len(s) - 1)), s[Len(s)])

\* lines, sorted by angle
sorted_lines(inter, rds) ==
    sort_by_key([k \in 1..Len(inter.roads) |-> border_entry(inter.roads[k], rds, inter.id)])

\* a diagnostic: its level, the intersection and the roads it names
Diagnostic(level, i, ids) == [level |-> level, i |-> i, roads |-> ids]

\* the outcome of a call, or of a part of it
Outcome(status, rds, endpoints, log, corners) ==
    [status |-> status, roads |-> rds, endpoints |-> endpoints, log |-> log,
     corners |-> corners]

\* ------------------------------------------------------------------------
\* initial_intersection_polygon: dead ends (one incident road)

\* pt1 and pt2: the points 2 * DEGENERATE_INTERSECTION_HALF_LENGTH back
\* from the end of a border
dead_end_walk(pl) ==
    safe_dist_along(reversed(pl), DEGENERATE_INTERSECTION_HALF_LENGTH * 2)

\* the points of a dead end whose borders are both long enough
dead_end_points(pl_a, pl_b) ==
    <<unwrap(dead_end_walk(pl_a)), unwrap(dead_end_walk(pl_b)), last_pt(pl_b), last_pt(pl_a)>>

\* mutation of dead_end_slice: the trim by the half-length, not its double
dead_end_slice_half(r, i) ==
    IF r.src_i = i
    THEN <<DEGENERATE_INTERSECTION_HALF_LENGTH, length(r.center_pts)>>
    ELSE <<0, length(r.center_pts) - DEGENERATE_INTERSECTION_HALF_LENGTH>>

\* the arguments of the slice that trims the road of a dead end
dead_end_slice(r, i) ==
    IF r.src_i = i
    THEN <<DEGENERATE_INTERSECTION_HALF_LENGTH * 2, length(r.center_pts)>>
    ELSE <<0, length(r.center_pts) - DEGENERATE_INTERSECTION_HALF_LENGTH * 2>>

\* mutation of dead_end_degraded_points: one border end only
dead_end_degraded_points_one(pl_a, pl_b) == <<last_pt(pl_a)>>

\* the points of a dead end that is too short
dead_end_degraded_points(pl_a, pl_b) == <<last_pt(pl_a), last_pt(pl_b)>>

\* mutation of dead_end_degraded_log: no diagnostic
dead_end_degraded_log_silent(i, id) == <<>>

\* the error! of a dead end that is too short
dead_end_degraded_log(i, id) == <<Diagnostic("error", i, <<id>>)>>

\* the branch lines.len() == 1
dead_end(i, rds, lines) ==
    LET id == lines[1].id
        pl_a == lines[1].pl_normal
        pl_b == lines[1].pl_reverse
        cut == dead_end_slice(rds[id], i)
    IN  IF is_some(dead_end_walk(pl_a)) /\ is_some(dead_end_walk(pl_b))
        THEN IF slice_ok(rds[id].center_pts, cut[1], cut[2])
             THEN Outcome("ok",
                          [rds EXCEPT ![id].center_pts = slice(@, cut[1], cut[2])],
                          dead_end_points(pl_a, pl_b), <<>>, <<>>)
             ELSE Outcome("panic", rds, <<>>, <<>>, <<>>)
        ELSE Outcome("ok", rds,
                     dead_end_degraded_points(pl_a, pl_b),
                     dead_end_degraded_log(i, id), <<>>)

\* ------------------------------------------------------------------------
\* initial_intersection_polygon: two incident roads

\* whether the four borders are long enough
two_roads_long_enough(l1, l2) ==
    /\ length(l1.pl_normal) >= DEGENERATE_INTERSECTION_HALF_LENGTH
    /\ length(l1.pl_reverse) >= DEGENERATE_INTERSECTION_HALF_LENGTH
    /\ length(l2.pl_normal) >= DEGENERATE_INTERSECTION_HALF_LENGTH
    /\ length(l2.pl_reverse) >= DEGENERATE_INTERSECTION_HALF_LENGTH

\* the point DEGENERATE_INTERSECTION_HALF_LENGTH back from the end of a border
two_roads_walk(pl) == dist_along(reversed(pl), DEGENERATE_INTERSECTION_HALF_LENGTH)

\* mutation of two_roads_points: the two normal borders first
two_roads_points_swapped(l1, l2) ==
    dedup(<<two_roads_walk(l1.pl_normal), two_roads_walk(l2.pl_normal),
            two_roads_walk(l2.pl_reverse), two_roads_walk(l1.pl_reverse)>>)

\* the points of two roads that are long enough
two_roads_points(l1, l2) ==
    dedup(<<two_roads_walk(l1.pl_normal), two_roads_walk(l2.pl_reverse),
            two_roads_walk(l2.pl_normal), two_roads_walk(l1.pl_reverse)>>)

\* the arguments of the slice that trims one of the two roads
two_roads_slice(r, i) ==
    IF r.src_i = i
    THEN <<DEGENERATE_INTERSECTION_HALF_LENGTH, length(r.center_pts)>>
    ELSE <<0, length(r.center_pts) - DEGENERATE_INTERSECTION_HALF_LENGTH>>

\* the points of two roads of which some border is too short
two_roads_degraded_points(l1, l2) ==
    <<last_pt(l1.pl_normal), last_pt(l1.pl_reverse),
      last_pt(l2.pl_normal), last_pt(l2.pl_reverse)>>

\* the error! of two roads of which some border is too short
two_roads_degraded_log(i, id1, id2) == <<Diagnostic("error", i, <<id1, id2>>)>>

\* the branch lines.len() == 2
two_roads(i, rds, lines) ==
    LET l1 == lines[1]
        l2 == lines[2]
        cut1 == two_roads_slice(rds[l1.id], i)
        cut2 == two_roads_slice(rds[l2.id], i)
    IN  IF two_roads_long_enough(l1, l2)
        THEN IF /\ slice_ok(rds[l1.id].center_pts, cut1[1], cut1[2])
                /\ slice_ok(rds[l2.id].center_pts, cut2[1], cut2[2])
             THEN Outcome("ok",
                          [rds EXCEPT ![l1.id].center_pts = slice(@, cut1[1], cut1[2]),
                                      ![l2.id].center_pts = slice(@, cut2[1], cut2[2])],
                          two_roads_points(l1, l2), <<>>, <<>>)
             ELSE Outcome("panic", rds, <<>>, <<>>, <<>>)
        ELSE Outcome("ok", rds, two_roads_degraded_points(l1, l2),
                     two_roads_degraded_log(i, l1.id, l2.id), <<>>)

\* ------------------------------------------------------------------------
\* make_new_polygon: the corners of each road (three or more roads)

\* mutation of adj_fwd_pl: the neighbour's border of the same side
adj_fwd_pl_same_side(lines, idx) == wraparound_get(lines, idx - 1).pl_normal

\* the neighbour's border that meets the normal border of the road at idx
adj_fwd_pl(lines, idx) == wraparound_get(lines, idx - 1).pl_reverse

\* the neighbour's border that meets the reverse border of the road at idx
adj_back_pl(lines, idx) == wraparound_get(lines, idx + 1).pl_normal

\* road_center: the current centerline of the road, ending at the intersection
road_center_of(r, i) ==
    IF r.dst_i = i THEN r.center_pts ELSE reversed(r.center_pts)

\* where the perpendicular to a corner hits the centerline, as the library
\* answers it
trim_to_of(road_center, hit, angle, lib) ==
    LET perp == Line(hit, project_away(hit, 1, rotate_degs(angle, 90)))
    IN  IF lib = "perp_none" THEN None
        ELSE intersection_infinite_line(road_center, perp)

\* (fwd_hit, new_center1) or (back_hit, new_center2), from x, where the
\* border meets the neighbour's, and trim_to, where the perpendicular at x
\* hits the centerline; panic when the unwrap of trim_to fails
corner_of(road_center, x, trim_to) ==
    IF is_some(x)
    THEN IF is_some(trim_to)
         THEN [hit |-> Some(unwrap(x)[1]),
               new_center |-> Some(trim_to_pt(road_center, unwrap(trim_to))),
               panic |-> FALSE]
         ELSE [hit |-> None, new_center |-> None, panic |-> TRUE]
    ELSE [hit |-> None, new_center |-> None, panic |-> FALSE]

corner_at(road_center, x, lib) ==
    corner_of(road_center, x,
              IF is_some(x)
              THEN trim_to_of(road_center, unwrap(x)[1], unwrap(x)[2], lib)
              ELSE None)

\* the corner of border pl with the neighbour's border adj_pl
corner(road_center, pl, adj_pl, lib) ==
    corner_at(road_center, intersection(pl, adj_pl), lib)

\* mutation of shorter_center: the longer candidate
shorter_center_longer(new_center1, new_center2) ==
    IF is_some(new_center1) /\ is_some(new_center2)
    THEN IF length(unwrap(new_center1)) >= length(unwrap(new_center2))
         THEN unwrap(new_center1) ELSE unwrap(new_center2)
    ELSE IF is_some(new_center1) THEN unwrap(new_center1)
    ELSE unwrap(new_center2)

\* shorter_center, of two candidates of which at least one exists
shorter_center(new_center1, new_center2) ==
    IF is_some(new_center1) /\ is_some(new_center2)
    THEN IF length(unwrap(new_center1)) <= length(unwrap(new_center2))
         THEN unwrap(new_center1) ELSE unwrap(new_center2)
    ELSE IF is_some(new_center1) THEN unwrap(new_center1)
    ELSE unwrap(new_center2)

\* mutation of road_trimmed: the centerline stored as it ends at the
\* intersection, whichever way the road runs
road_trimmed_unreversed(r, i, shorter) == [r EXCEPT !.center_pts = shorter]

\* the road with its centerline set from shorter_center
road_trimmed(r, i, shorter) ==
    IF r.src_i = i
    THEN [r EXCEPT !.center_pts = reversed(shorter)]
    ELSE [r EXCEPT !.center_pts = shorter]

\* the points one road adds to endpoints
road_points(r, i, shorter, fwd_hit, back_hit) ==
    LET fwd_width == LANE_THICKNESS * r.children_forwards
        back_width == LANE_THICKNESS * r.children_backwards
        width_normal == IF r.src_i = i THEN back_width ELSE fwd_width
        width_reverse == IF r.src_i = i THEN fwd_width ELSE back_width
    IN  fwd_hit
        \o <<last_pt(pl_normal_of(shorter, width_normal))>>
        \o <<last_pt(pl_reverse_of(shorter, width_reverse))>>
        \o back_hit

\* the loop of make_new_polygon from position idx on; status "ok" is
\* Some(endpoints), "none" is None
RECURSIVE make_new_polygon_from(_, _, _, _, _, _, _)

\* one round of the loop: the road id at idx, with its corners c1 (forward)
\* and c2 (backward)
make_new_polygon_round(rds, i, lines, idx, endpoints, corners, lib, id, c1, c2) ==
    IF c1.panic \/ c2.panic
    THEN Outcome("panic", rds, <<>>,
                 <<Diagnostic("panic: perpendicular unwrap", i, <<id>>)>>,
                 corners)
    ELSE IF ~is_some(c1.new_center) /\ ~is_some(c2.new_center)
    THEN Outcome("none", rds, <<>>, <<>>,
                 Append(corners, [id |-> id, fwd_hit |-> c1.hit, back_hit |-> c2.hit]))
    ELSE make_new_polygon_from(
             [rds EXCEPT ![id] =
                 road_trimmed(@, i, shorter_center(c1.new_center, c2.new_center))],
             i, lines, idx + 1,
             endpoints \o road_points(rds[id], i,
                                      shorter_center(c1.new_center, c2.new_center),
                                      c1.hit, c2.hit),
             Append(corners, [id |-> id, fwd_hit |-> c1.hit, back_hit |-> c2.hit]),
             lib)

make_new_polygon_from(rds, i, lines, idx, endpoints, corners, lib) ==
    IF idx = Len(lines)
    THEN Outcome("ok", rds, dedup(endpoints), <<>>, corners)
    ELSE make_new_polygon_round(
             rds, i, lines, idx, endpoints, corners, lib,
             wraparound_get(lines, idx).id,
             corner(road_center_of(rds[wraparound_get(lines, idx).id], i),
                    wraparound_get(lines, idx).pl_normal,
                    adj_fwd_pl(lines, idx), lib),
             corner(road_center_of(rds[wraparound_get(lines, idx).id], i),
                    wraparound_get(lines, idx).pl_reverse,
                    adj_back_pl(lines, idx), lib))

make_new_polygon(rds, i, lines, lib) ==
    make_new_polygon_from(rds, i, lines, 0, <<>>, <<>>, lib)

\* ------------------------------------------------------------------------
\* initial_intersection_polygon: the fallback over adjacent pairs

\* what the pair (idx1, idx1 + 1) adds: its points, and whether all were hits
pair_points(lines, idx1) ==
    LET idx2 == idx1 + 1
        pl1 == wraparound_get(lines, idx1).pl_reverse
        pl2 == wraparound_get(lines, idx2).pl_normal
        angle_diff == Abs(normalized_degrees(opposite(line_angle(last_line(pl1))))
                          - normalized_degrees(line_angle(last_line(pl2))))
        direct == intersection(pl1, pl2)
        inf_line1 == last_line(wraparound_get(lines, idx1 - 1).pl_reverse)
        hit1 == intersection_infinite_line(pl1, inf_line1)
        inf_line2 == last_line(wraparound_get(lines, idx2 + 1).pl_normal)
        hit2 == intersection_infinite_line(pl2, inf_line2)
    IN  IF angle_diff > 15 /\ is_some(direct)
        THEN [pts |-> <<unwrap(direct)[1]>>, ok |-> TRUE]
        ELSE [pts |-> <<IF is_some(hit1) THEN unwrap(hit1) ELSE last_pt(pl1),
                        IF is_some(hit2) THEN unwrap(hit2) ELSE last_pt(pl2)>>,
              ok |-> is_some(hit1) /\ is_some(hit2)]

\* the warn! of a pair without a hit
pair_log(i, lines, idx1) ==
    IF pair_points(lines, idx1).ok THEN <<>>
    ELSE <<Diagnostic("warn", i, <<wraparound_get(lines, idx1).id,
                                   wraparound_get(lines, idx1 + 1).id>>)>>

\* the loop over the pairs from idx1 on
RECURSIVE fallback_from(_, _, _, _, _)
fallback_from(i, lines, idx1, endpoints, log) ==
    IF idx1 = Len(lines) THEN [endpoints |-> endpoints, log |-> log]
    ELSE fallback_from(i, lines, idx1 + 1,
                       endpoints \o pair_points(lines, idx1).pts,
                       log \o pair_log(i, lines, idx1))

\* the polygon of the fallback fb, after the corner pass made
fallen_back(made, fb) ==
    Outcome("ok", made.roads, fb.endpoints, fb.log, made.corners)

\* what follows the corner pass made: its polygon, or the fallback's
general_after(i, lines, made) ==
    IF made.status = "none"
    THEN fallen_back(made,
                     fallback_from(i, lines, 0, <<>>, <<Diagnostic("note", i, <<>>)>>))
    ELSE made

\* the branch of three or more roads
general(i, rds, lines, lib) ==
    general_after(i, lines, make_new_polygon(rds, i, lines, lib))

\* ------------------------------------------------------------------------
\* initial_intersection_polygon

\* mutation of close_polygon: the last point pushed again
close_polygon_last(endpoints) == Append(endpoints, endpoints[Len(endpoints)])

\* endpoints.push(endpoints[0])
close_polygon(endpoints) == Append(endpoints, endpoints[1])

\* the polygon res of a branch, closed; a branch that panicked, or the index
\* out of bounds of endpoints[0], aborts
closed(res) ==
    IF res.status = "ok" /\ res.endpoints # <<>>
    THEN [res EXCEPT !.endpoints = close_polygon(@)]
    ELSE [res EXCEPT !.status = "panic"]

\* the branches on lines.len()
branch(i, rds, lines, lib) ==
    CASE Len(lines) = 1 -> dead_end(i, rds, lines)
      [] Len(lines) = 2 -> two_roads(i, rds, lines)
      [] OTHER -> general(i, rds, lines, lib)

\* one call on intersection inter with the roads rds: status "ok" when it
\* returns (endpoints is then the polygon), "panic" when it aborts
call(inter, rds, lib) ==
    IF \E k \in 1..Len(inter.roads) : ~is_some(oriented(rds[inter.roads[k]], inter.id))
    THEN Outcome("panic", rds, <<>>,
                 <<Diagnostic("panic: no endpoint", inter.id, <<>>)>>, <<>>)
    ELSE IF lib = "shift_none"
    THEN Outcome("panic", rds, <<>>,
                 <<Diagnostic("panic: shift unwrap", inter.id, <<>>)>>, <<>>)
    ELSE closed(branch(inter.id, rds, sorted_lines(inter, rds), lib))

\* ------------------------------------------------------------------------
\* The networks: a centre, intersection 0 at the origin, with straight roads
\* to its neighbours; road k joins the centre and intersection k + 1

East == <<1, 0>>

Dirs == {<<1, 0>>, <<0, 1>>, <<-1, 0>>, <<0, -1>>}

\* road lengths, in metres: shorter than DEGENERATE_INTERSECTION_HALF_LENGTH,
\* between it and its double, and MaxLen; no trim of these (by 5, by 10, or
\* to a border at an offset of 0 or LANE_THICKNESS) leaves a centerline of
\* length 0
Lens == {1, 7, MaxLen}

\* (children_forwards.len(), children_backwards.len()): a two-way road and
\* a one-way road
LanePairs == {<<1, 1>>, <<1, 0>>}

RoadShapes ==
    [dir : Dirs, from_centre : BOOLEAN, len : Lens, lanes : LanePairs]

\* the shapes road k of a centre of n roads can have: road 0 runs east; of
\* three roads, none is of the middle length, road 0 runs from the centre
\* and road 1 to it
ShapesFor(n, k) ==
    { s \in RoadShapes :
        /\ k = 0 => s.dir = East
        /\ n >= 3 => /\ s.len # 7
                     /\ k = 0 => s.from_centre
                     /\ k = 1 => ~s.from_centre }

\* the shapes of roads 0 .. k - 1 of a centre of n roads
RECURSIVE ShapesUpTo(_, _)
ShapesUpTo(n, k) ==
    IF k = 0 THEN {<<>>}
    ELSE { Append(f, s) : f \in ShapesUpTo(n, k - 1), s \in ShapesFor(n, k - 1) }

\* the shapes of the roads of a centre of n roads; of three roads at most
\* one is short
ShapesOf(n) ==
    { f \in ShapesUpTo(n, n) :
        n >= 3 => Cardinality({ k \in 1..n : f[k].len = 1 }) <= 1 }

Centre == 0

far_end(k) == k + 1

\* road k; stray: its far end is recorded as another intersection than the
\* one that lists it as incident
road_of(shape, k, stray) ==
    LET far == <<shape.dir[1] * shape.len, shape.dir[2] * shape.len>>
        far_i == IF stray THEN far_end(k) + 1 ELSE far_end(k)
    IN  [src_i |-> IF shape.from_centre THEN Centre ELSE far_i,
         dst_i |-> IF shape.from_centre THEN far_i ELSE Centre,
         center_pts |-> IF shape.from_centre THEN <<(<<0, 0>>), far>>
                        ELSE <<far, (<<0, 0>>)>>,
         children_forwards |-> shape.lanes[1],
         children_backwards |-> shape.lanes[2]]

intersections_of(n) ==
    [i \in 0..n |->
        IF i = Centre THEN [id |-> i, roads |-> [k \in 1..n |-> k - 1]]
        ELSE [id |-> i, roads |-> <<i - 1>>]]

Degrees == 1..3

Idle == [i |-> -1, status |-> "idle", before |-> <<>>, endpoints |-> <<>>,
         log |-> <<>>, corners |-> <<>>]

Init ==
    \E n \in Degrees : \E f \in ShapesOf(n) : \E stray \in BOOLEAN :
        /\ stray => n = 1
        /\ roads = [k \in 0..(n - 1) |-> road_of(f[k + 1], k, stray)]
        /\ intersections = intersections_of(n)
        /\ done = {}
        /\ last = Idle

\* what a call on intersection i that ended as res leaves behind
call_effect(i, res) ==
    /\ roads' = res.roads
    /\ last' = [i |-> i,
                status |-> IF res.status = "ok" THEN "returned" ELSE "aborted",
                before |-> roads,
                endpoints |-> res.endpoints,
                log |-> res.log,
                corners |-> res.corners]

\* one call of initial_intersection_polygon(&intersections[i], &mut roads)
initial_intersection_polygon(i, lib) ==
    /\ i \notin done
    /\ Cardinality(done) < MaxCalls
    /\ last.status # "aborted"
    /\ lib = "perp_none" => Len(intersections[i].roads) >= 3
    /\ call_effect(i, call(intersections[i], roads, lib))
    /\ done' = done \cup {i}
    /\ UNCHANGED intersections

Next ==
    \E i \in DOMAIN intersections : \E lib \in LibAnswers :
        initial_intersection_polygon(i, lib)

Spec == Init /\ [][Next]_vars

\* ------------------------------------------------------------------------
\* What the claims speak of: the latest call

Called == last.status # "idle"

Returned == last.status = "returned"

\* the intersection of the latest call, and its incident roads
CalledAt == intersections[last.i]

Degree == Len(CalledAt.roads)

\* lines, as the call built them from the roads at entry
EntryLines == sorted_lines(CalledAt, last.before)

\* the polygon without its closing point
Ring == SubSeq(last.endpoints, 1, Len(last.endpoints) - 1)

Points(seq) == { seq[k] : k \in 1..Len(seq) }

\* the call logged "couldnt make new": the fallback over pairs made the polygon
FellBack == last.log # <<>> /\ last.log[1].level = "note"

\* the dead end's borders are both long enough for the walk
DeadEndLong ==
    /\ Degree = 1
    /\ length(EntryLines[1].pl_normal) >= 2 * DEGENERATE_INTERSECTION_HALF_LENGTH
    /\ length(EntryLines[1].pl_reverse) >= 2 * DEGENERATE_INTERSECTION_HALF_LENGTH

\* the four borders of the two roads are long enough
TwoRoadsLong ==
    /\ Degree = 2
    /\ \A k \in 1..2 :
         /\ length(EntryLines[k].pl_normal) >= DEGENERATE_INTERSECTION_HALF_LENGTH
         /\ length(EntryLines[k].pl_reverse) >= DEGENERATE_INTERSECTION_HALF_LENGTH

\* every incident road records the intersection as its source or destination
Consistent ==
    \A k \in 1..Len(CalledAt.roads) :
        LET r == last.before[CalledAt.roads[k]]
        IN  r.src_i = last.i \/ r.dst_i = last.i

\* the call aborted on an incident road without an endpoint at the intersection
NoEndpointPanic == last.status = "aborted" /\ ~Consistent

\* ------------------------------------------------------------------------
\* C1: every polygon a call returns is non-empty and closed: its last point
\* equals its first point.
C1_ClosedRing ==
    Returned =>
        /\ Len(last.endpoints) >= 1
        /\ last.endpoints[Len(last.endpoints)] = last.endpoints[1]

\* a polygon of several distinct points, made by the fallback over pairs
C1_Witness ==
    /\ Returned /\ Degree >= 3 /\ FellBack
    /\ Cardinality(Points(Ring)) >= 3
    /\ last.endpoints[Len(last.endpoints)] = last.endpoints[1]

\* ------------------------------------------------------------------------
\* C2: when the corner pass fails and the fallback over pairs makes the
\* polygon, the call leaves every road's centerline as it was at entry.
C2_FallbackLeavesRoads ==
    (Returned /\ Degree >= 3 /\ FellBack) =>
        \A k \in DOMAIN roads : roads[k].center_pts = last.before[k].center_pts

\* ------------------------------------------------------------------------
\* C3: a call on an intersection whose incident roads all have an endpoint
\* at it returns a polygon, whatever the geometry library answers.
C3_NeverAborts ==
    (Called /\ Degree >= 1 /\ Consistent) => Returned

BackFromEnd(pl, d) == point_at(reversed(pl), d)

\* the direction a centerline runs in
Heading(pl) == line_angle(Line(pl[1], last_pt(pl)))

\* the end of road r's centerline at intersection i, and its other end
EndAt(r, i) == IF r.src_i = i THEN r.center_pts[1] ELSE last_pt(r.center_pts)

FarEndOf(r, i) == IF r.src_i = i THEN last_pt(r.center_pts) ELSE r.center_pts[1]

\* road id was shortened by exactly d at its end at the called intersection:
\* its length fell by d, its other end stayed, and its end at the
\* intersection moved d along the old centerline
TrimmedBy(id, d) ==
    LET old == last.before[id]
        new == roads[id]
    IN  /\ length(new.center_pts) = length(old.center_pts) - d
        /\ FarEndOf(new, last.i) = FarEndOf(old, last.i)
        /\ EndAt(new, last.i) =
             IF old.src_i = last.i THEN point_at(old.center_pts, d)
             ELSE point_at(old.center_pts, length(old.center_pts) - d)
        /\ new.src_i = old.src_i /\ new.dst_i = old.dst_i

\* a diagnostic of the call names the intersection and exactly these roads
Diagnosed(ids) ==
    \E k \in 1..Len(last.log) :
        /\ last.log[k].i = last.i
        /\ Points(last.log[k].roads) = ids
        /\ last.log[k].level \in {"warn", "error"}

\* ------------------------------------------------------------------------
\* C5: a dead end whose two borders are at least twice the half-length long
\* gets exactly 4 points (the point walked back on the normal border, the
\* point walked back on the reverse border, the end of the reverse border,
\* the end of the normal border), and its road is shortened by exactly twice
\* the half-length at its end at the intersection.
C5_DeadEnd ==
    (Returned /\ DeadEndLong) =>
        LET e == EntryLines[1]
            d == 2 * DEGENERATE_INTERSECTION_HALF_LENGTH
        IN  /\ Len(Ring) = 4
            /\ Ring = <<BackFromEnd(e.pl_normal, d), BackFromEnd(e.pl_reverse, d),
                        last_pt(e.pl_reverse), last_pt(e.pl_normal)>>
            /\ TrimmedBy(e.id, d)

\* a long dead end at the source of its road, returned
C5_Witness ==
    /\ Returned /\ DeadEndLong
    /\ last.before[EntryLines[1].id].src_i = last.i
    /\ length(roads[EntryLines[1].id].center_pts) =
         length(last.before[EntryLines[1].id].center_pts)
         - 2 * DEGENERATE_INTERSECTION_HALF_LENGTH

\* ------------------------------------------------------------------------
\* C6: two roads whose four borders are at least the half-length long get
\* at most 4 points, the points walked back by the half-length on road 1's
\* normal, road 2's reverse, road 2's normal and road 1's reverse border, in
\* that order and deduplicated, and both roads are shortened by exactly the
\* half-length at their end at the intersection.
C6_TwoRoads ==
    (Returned /\ TwoRoadsLong) =>
        LET e1 == EntryLines[1]
            e2 == EntryLines[2]
            d == DEGENERATE_INTERSECTION_HALF_LENGTH
        IN  /\ Len(Ring) <= 4
            /\ Ring = dedup(<<BackFromEnd(e1.pl_normal, d), BackFromEnd(e2.pl_reverse, d),
                              BackFromEnd(e2.pl_normal, d), BackFromEnd(e1.pl_reverse, d)>>)
            /\ TrimmedBy(e1.id, d)
            /\ TrimmedBy(e2.id, d)

\* two long roads whose walked points are not all distinct: the
\* deduplication has removed one
C6_Witness ==
    /\ Returned /\ TwoRoadsLong
    /\ Len(Ring) < 4

\* ------------------------------------------------------------------------
\* C7: in the degraded branches (a dead end with a border shorter than twice
\* the half-length, two roads with a border shorter than the half-length)
\* the polygon is the raw border ends, no centerline is modified, and a
\* diagnostic names the intersection and the road(s).
C7_Degraded ==
    /\ (Returned /\ Degree = 1 /\ ~DeadEndLong) =>
          LET e == EntryLines[1]
          IN  /\ Ring = <<last_pt(e.pl_normal), last_pt(e.pl_reverse)>>
              /\ roads = last.before
              /\ Diagnosed({e.id})
    /\ (Returned /\ Degree = 2 /\ ~TwoRoadsLong) =>
          LET e1 == EntryLines[1]
              e2 == EntryLines[2]
          IN  /\ Ring = <<last_pt(e1.pl_normal), last_pt(e1.pl_reverse),
                          last_pt(e2.pl_normal), last_pt(e2.pl_reverse)>>
              /\ roads = last.before
              /\ Diagnosed({e1.id, e2.id})

\* two roads, one of them too short, returned with the 4 raw border ends
C7_Witness ==
    /\ Returned /\ Degree = 2 /\ ~TwoRoadsLong
    /\ Len(Ring) = 4
    /\ Diagnosed({EntryLines[1].id, EntryLines[2].id})

\* ------------------------------------------------------------------------
\* C8: a call changes only the centerlines of the roads incident to its
\* intersection; of such a road it never increases the length, never turns
\* the direction, and never moves the end at the road's other intersection.
C8_Frame ==
    Called =>
        \A id \in DOMAIN roads :
            LET old == last.before[id]
                new == roads[id]
            IN  /\ [new EXCEPT !.center_pts = old.center_pts] = old
                /\ id \notin Points(CalledAt.roads) => new = old
                /\ id \in Points(CalledAt.roads) =>
                      /\ length(new.center_pts) <= length(old.center_pts)
                      /\ Heading(new.center_pts) = Heading(old.center_pts)
                      /\ FarEndOf(new, last.i) = FarEndOf(old, last.i)

\* a road trimmed at both ends by two calls: the call at the centre has
\* moved its end there away from the origin, and the latest call, at its
\* other end, has shortened it again
C8_Witness ==
    /\ Returned /\ last.i # Centre /\ Centre \in done
    /\ LET id == CalledAt.roads[1]
       IN  /\ EndAt(last.before[id], Centre) # <<0, 0>>
           /\ length(roads[id].center_pts) < length(last.before[id].center_pts)
           /\ EndAt(roads[id], Centre) = EndAt(last.before[id], Centre)

\* ------------------------------------------------------------------------
\* What the claims about the corner solver speak of

\* where border a meets border b, if it does
HitOf(a, b) ==
    LET x == intersection(a, b)
    IN  IF is_some(x) THEN Some(unwrap(x)[1]) ELSE None

\* the entry of EntryLines at the 0-based position idx, wrapping around
EntryAt(idx) == wraparound_get(EntryLines, idx)

\* the corners the solver found for the road at position idx
FoundAt(idx) == last.corners[idx + 1]

\* the positions the corner solver worked on
Solved == 0..(Len(last.corners) - 1)

\* the centerline of the road at position idx at entry, ending at the
\* intersection
CenterAtEntry(idx) ==
    LET r == last.before[EntryAt(idx).id]
    IN  IF r.dst_i = last.i THEN r.center_pts ELSE reversed(r.center_pts)

\* the trim candidate of a corner: the centerline cut where the
\* perpendicular through the corner meets it
Candidate(center, hit) ==
    LET perp == Line(hit, project_away(hit, 1, Heading(center) + 90))
    IN  trim_to_pt(center, unwrap(intersection_infinite_line(center, perp)))

\* the candidate the claim selects for the road at position idx
Selected(idx) ==
    LET f == FoundAt(idx)
        c1 == Candidate(CenterAtEntry(idx), unwrap(f.fwd_hit))
        c2 == Candidate(CenterAtEntry(idx), unwrap(f.back_hit))
    IN  IF is_some(f.fwd_hit) /\ is_some(f.back_hit)
        THEN IF length(c2) < length(c1) THEN c2 ELSE c1
        ELSE IF is_some(f.fwd_hit) THEN c1 ELSE c2

\* the points the claim has the road at position idx add
Appended(idx) ==
    LET f == FoundAt(idx)
        o == unwrap(oriented(last.before[EntryAt(idx).id], last.i))
    IN  f.fwd_hit
        \o <<last_pt(unwrap(shift(Selected(idx), o.width_normal)))>>
        \o <<unwrap(shift(reversed(Selected(idx)), o.width_reverse))[1]>>
        \o f.back_hit

RECURSIVE AppendedUpTo(_)
AppendedUpTo(n) == IF n = 0 THEN <<>> ELSE AppendedUpTo(n - 1) \o Appended(n - 1)

\* ------------------------------------------------------------------------
\* C9, as stated: the forward corner of the road at idx is where its normal
\* border meets the normal border of the road at idx - 1, and its backward
\* corner where its reverse border meets the reverse border of the road at
\* idx + 1.
C9_SameSideBorders ==
    (Returned /\ Degree >= 3) =>
        \A idx \in Solved :
            /\ FoundAt(idx).fwd_hit =
                 HitOf(EntryAt(idx).pl_normal, EntryAt(idx - 1).pl_normal)
            /\ FoundAt(idx).back_hit =
                 HitOf(EntryAt(idx).pl_reverse, EntryAt(idx + 1).pl_reverse)

\* C9, amended: the forward corner of the road at idx is where its normal
\* border meets the reverse border of the road at idx - 1, and its backward
\* corner where its reverse border meets the normal border of the road at
\* idx + 1 (positions in the angularly sorted list, wrapping around).
C9_Amended ==
    (Returned /\ Degree >= 3) =>
        \A idx \in Solved :
            /\ FoundAt(idx).id = EntryAt(idx).id
            /\ FoundAt(idx).fwd_hit =
                 HitOf(EntryAt(idx).pl_normal, EntryAt(idx - 1).pl_reverse)
            /\ FoundAt(idx).back_hit =
                 HitOf(EntryAt(idx).pl_reverse, EntryAt(idx + 1).pl_normal)

\* a solved intersection with a road that has both corners and a road that
\* has only one
C9_Witness ==
    /\ Returned /\ Degree >= 3 /\ ~FellBack
    /\ \E idx \in Solved :
           is_some(FoundAt(idx).fwd_hit) /\ is_some(FoundAt(idx).back_hit)
    /\ \E idx \in Solved :
           is_some(FoundAt(idx).fwd_hit) # is_some(FoundAt(idx).back_hit)

\* ------------------------------------------------------------------------
\* C10: every road for which the solver found a corner has its centerline
\* set to the shorter of its trim candidates (the forward one on a tie, the
\* only one if there is one), stored from source to destination; and the
\* points it adds are the forward corner if any, the end of the normal
\* border of the trimmed centerline, the end of its reverse border, and the
\* backward corner if any.
C10_ShorterCandidate ==
    (Returned /\ Degree >= 3) =>
        /\ \A idx \in Solved :
              (is_some(FoundAt(idx).fwd_hit) \/ is_some(FoundAt(idx).back_hit)) =>
                  LET old == last.before[EntryAt(idx).id]
                      new == roads[EntryAt(idx).id]
                  IN  /\ new.center_pts =
                           IF old.src_i = last.i THEN reversed(Selected(idx))
                           ELSE Selected(idx)
                      /\ Heading(new.center_pts) = Heading(old.center_pts)
        /\ ~FellBack => Ring = dedup(AppendedUpTo(Len(last.corners)))

\* a road that runs from the intersection, with two candidates of which the
\* backward one is the shorter, in a solved intersection
C10_Witness ==
    /\ Returned /\ Degree >= 3 /\ ~FellBack
    /\ \E idx \in Solved :
           LET f == FoundAt(idx)
           IN  /\ is_some(f.fwd_hit) /\ is_some(f.back_hit)
               /\ last.before[EntryAt(idx).id].src_i = last.i
               /\ length(Candidate(CenterAtEntry(idx), unwrap(f.back_hit)))
                    < length(Candidate(CenterAtEntry(idx), unwrap(f.fwd_hit)))
               /\ roads[EntryAt(idx).id].center_pts = reversed(Selected(idx))

====
